---- MODULE Spec2Model ----
(***************************************************************************)
(* Live attendance session engine of 007-bg/Live-Attendance-System.        *)
(*                                                                         *)
(* The session store is Redis (classes/redis_utils.py), the durable sink   *)
(* is the Attendance table (classes/models.py), sessions are started over  *)
(* HTTP (classes/views.py) and driven over WebSocket connections           *)
(* (classes/consumers.py).  Every handler is a coroutine (or a request)    *)
(* that may run in any worker process: the handlers share nothing but the  *)
(* Redis store and the database, and the code takes no lock and opens no   *)
(* transaction, so each Redis command and each database statement is one   *)
(* atomic step and the steps of different handlers interleave freely.      *)
(*                                                                         *)
(* Identifiers are the decimal strings the API hands out (str(pk)).        *)
(***************************************************************************)
EXTENDS Integers, Sequences, FiniteSets, Bags, TLC

(* ------------------------------ bounds -------------------------------- *)
\* sessions created (uuid4 values drawn) in one behaviour
MaxSessions == 2
\* ATTENDANCE_MARKED events that reach the store in one behaviour
MaxMarks == 2

(* ------------------------- the database's rows ------------------------- *)
\* users.models.User rows: primary key -> role (0: no such row)
NoUser == 0
UserRole ==
  (1 :> "TEACHER") @@ (2 :> "STUDENT") @@ (3 :> "STUDENT") @@ (4 :> "STUDENT") @@ (5 :> "TEACHER") @@
  (6 :> "ADMIN")

\* User.objects.get(id=<string>) on the id strings of the model ("9" is no
\* user's id), and its inverse str(user.id)
UserOfId ==
  ("1" :> 1) @@ ("2" :> 2) @@ ("3" :> 3) @@ ("4" :> 4) @@ ("5" :> 5) @@ ("6" :> 6) @@
  ("9" :> NoUser)
str(pk) == CHOOSE s \in DOMAIN UserOfId : UserOfId[s] = pk

\* classes.models.Class rows: id string -> owning teacher (class "1" of teacher
\* 1, class "2" of teacher 5; "7" is no class's id)
ClassIdInputs == {"1", "2", "7"}
ClassTeacher == ("1" :> 1) @@ ("2" :> 5)
ClassExists(c) == c \in DOMAIN ClassTeacher
InitialStudents == ("1" :> {2, 3}) @@ ("2" :> {3})

\* the (studentId, status) pairs the teachers' ATTENDANCE_MARKED events carry:
\* an enrolled student marked either way, a user who is not enrolled, and an
\* id that is no user's
MarkInputs == {<<"2", "present">>, <<"2", "absent">>, <<"4", "present">>, <<"9", "absent">>}

(* ------------------------------ sessions ------------------------------- *)
\* Python's None for a session read from Redis
None == [sessionId |-> 0, classId |-> "", startedAt |-> 0, attendance |-> << >>]

\* an attendance dict is an insertion-ordered sequence of <<studentId, status>>
Keys(att) == {att[i][1] : i \in 1..Len(att)}
Index(att, s) == CHOOSE i \in 1..Len(att) : att[i][1] = s
\* a lookup that answers with the first entry's status
Get_first(att, s) == att[1][2]
Get(att, s) == att[Index(att, s)][2]

VARIABLES
  store,     \* Redis: class id -> the session stored under its key, or None
  records,   \* the Attendance table: a bag of rows (the primary keys left out)
  students,  \* Class.students: class id -> the set of enrolled users
  conn,      \* each connection's handler in flight: where it is, its locals
  http,      \* each HTTP request in flight
  out,       \* what the last step sent: frames to a socket, to the group, an HTTP response
  nextSid,   \* the next uuid4 value
  nMarks,    \* ATTENDANCE_MARKED events that got past their checks
  sock,      \* each WebSocket: "new" (not yet connected), "open" or "closed", the
             \* token in its scope and the user_id the middleware put there
  group      \* the channel layer's group "attendance": the connections in it

vars == <<store, records, students, conn, http, out, nextSid, nMarks, sock, group>>

(* ----------------------------- connections ----------------------------- *)
\* AccessToken(token).get("user_id") for the tokens that validate: the access
\* tokens of users 1 and 2 and of a user 8 that is gone; any other token ("" for
\* none, "garbage" for no JWT, "expired") does not
AccessToken == ("jwt8" :> 8) @@ ("jwt1" :> 1) @@ ("jwt2" :> 2)
\* a lookup that answers with user 1 whatever the id
get_user_first(user_id) == 1
\* JWTAuthMiddleware.get_user
get_user(user_id) == IF user_id \in DOMAIN UserRole THEN user_id ELSE NoUser
\* scope["user_id"] as JWTAuthMiddleware.__call__ leaves it (NoUser: None, with
\* the AnonymousUser in scope["user"])
JWTAuthMiddleware(token) ==
  IF token = "" THEN NoUser
  ELSE IF token \notin DOMAIN AccessToken THEN NoUser
  ELSE get_user(AccessToken[token])

NewSock == [state |-> "new", token |-> "", user_id |-> NoUser]
\* self.user_id of each connection
ConnUser == [k \in DOMAIN sock |-> sock[k].user_id]
\* a consumer that takes every connection for a teacher's
ConnRole_teachers == [k \in DOMAIN sock |-> "TEACHER"]
\* self.role of each connection (None for an anonymous one)
ConnRole == [k \in DOMAIN sock |->
               IF ConnUser[k] = NoUser THEN "" ELSE UserRole[ConnUser[k]]]

(* ------------------------ classes/redis_utils.py ----------------------- *)
\* the store maps a class id (the Redis key attendance:session:<id>) to the
\* session serialized under it; json.dumps/json.loads keep string keys,
\* their order and the string values as they are
\* redis_client.exists(key) > 1, which no key satisfies
session_exists_never(st, c) == FALSE

session_exists(st, c) == st[c] # None

get_active_session(st, c) == st[c]

set_active_session(st, c, session_data) == [st EXCEPT ![c] = session_data]

\* a delete that empties the whole store
clear_active_session_all(st, c) == [x \in DOMAIN st |-> None]
clear_active_session(st, c) == [st EXCEPT ![c] = None]

\* a dict that puts every status under a new key
put_attendance_appends(att, s, v) == Append(att, <<s, v>>)

\* session["attendance"][student_id] = status on a dict: an existing key keeps
\* its place, a new key goes last
put_attendance(att, s, v) ==
  IF s \in Keys(att) THEN [att EXCEPT ![Index(att, s)] = <<s, v>>]
  ELSE Append(att, <<s, v>>)

(* ----------------------------- frames ---------------------------------- *)
NoFrame == [event |-> "", classId |-> "", studentId |-> "", status |-> "",
            present |-> 0, absent |-> 0, total |-> 0, userId |-> NoUser, role |-> ""]
\* send_error: an ERROR frame to the sender
Error(msg) == [NoFrame EXCEPT !.event = "ERROR", !.status = msg]

NoResp == [status |-> 0, error |-> "", sessionId |-> 0, classId |-> "", startedAt |-> 0]
\* Response({"success": False, "error": msg}, status=code)
Failure(code, msg) == [NoResp EXCEPT !.status = code, !.error = msg]

\* a step that sends nothing (classId, studentId, status: the payload of the
\* event or request the step answers)
Quiet == [who |-> "", handler |-> "", classId |-> "", studentId |-> "", status |-> "",
          user |-> NoUser, sent |-> NoFrame, published |-> NoFrame, resp |-> NoResp]
\* self.send(...) on connection k, from the handler of event e
Sent(k, e, frame) == [Quiet EXCEPT !.who = k, !.handler = e, !.sent = frame]
\* channel_layer.group_send("attendance", ...) from connection k
Published(k, e, frame) == [Quiet EXCEPT !.who = k, !.handler = e, !.published = frame]
\* what a handler sends at once on an event with the payload (c, s, v)
On(c, s, v, o) == [o EXCEPT !.classId = c, !.studentId = s, !.status = v]
\* the Response to request h, a start-attendance for class c
Responded(h, c, r) ==
  [Quiet EXCEPT !.who = h, !.handler = "start_attendance", !.classId = c, !.resp = r]
\* a response to a request of request.user u
By(u, o) == [o EXCEPT !.user = u]

\* a count that takes every entry
Count_all(att, v) == Len(att)
\* sum(1 for s in attendance.values() if s == v)
Count(att, v) == Cardinality({i \in 1..Len(att) : att[i][2] = v})
\* a summary that counts nothing
Summary_zero(att) == [present |-> 0, absent |-> 0, total |-> 0]
\* present, absent and total as handle_today_summary and handle_done compute them
Summary(att) == [present |-> Count(att, "present"), absent |-> Count(att, "absent"),
                 total |-> Len(att)]

(* ------------------------------ HTTP ----------------------------------- *)
HTTP_200_OK == 200
HTTP_400_BAD_REQUEST == 400
HTTP_403_FORBIDDEN == 403

IdleReq == [pc |-> "idle", classId |-> "", user |-> NoUser, session |-> None]

IdleConn ==
  [pc |-> "idle", classId |-> "", studentId |-> "", status |-> "",
   session |-> None, dict |-> << >>, i |-> 0]

\* the system with the connections of U open and in the group (U: connection
\* -> the user it authenticated as), the requests H, no session and no record
InitOf(U, H) ==
  /\ store = [c \in ClassIdInputs |-> None]
  /\ records = EmptyBag
  /\ students = InitialStudents
  /\ conn = [k \in DOMAIN U |-> IdleConn]
  /\ http = [h \in H |-> IdleReq]
  /\ out = Quiet
  /\ nextSid = 1
  /\ nMarks = 0
  /\ sock = [k \in DOMAIN U |-> [state |-> "open", token |-> "jwt", user_id |-> U[k]]]
  /\ group = DOMAIN U

\* IsTeacher.has_permission for an authenticated request.user
IsTeacher(u) == UserRole[u] = "TEACHER"
\* an ownership check that lets every teacher through
IsClassTeacher_any(c, u) == TRUE
\* class_obj.teacher == request.user
IsClassTeacher(c, u) == ClassTeacher[c] = u

\* a generator that hands out again the value it drew last
uuid4_repeats == IF nextSid > 1 THEN nextSid - 1 ELSE nextSid
\* uuid.uuid4(): the value the next call draws, which no earlier call drew
uuid4 == nextSid

\* ClassViewSet.start_attendance up to the session_exists check: the request
\* is answered at once, or goes on to store the session it has built
StartAttendance(h, u, c) ==
  /\ http[h].pc = "idle"
  /\ UNCHANGED <<sock, group>>
  /\ UNCHANGED <<store, records, students, conn, nMarks>>
  /\ IF ~IsTeacher(u)
     THEN \* permission_classes=[IsTeacher]
          /\ out' = By(u, Responded(h, c, Failure(HTTP_403_FORBIDDEN, "permission denied")))
          /\ UNCHANGED <<http, nextSid>>
     ELSE IF ~ClassExists(c)
     THEN \* StartAttendanceSerializer.validate_class_id
          /\ out' = By(u, Responded(h, c, Failure(HTTP_400_BAD_REQUEST, "Class not found")))
          /\ UNCHANGED <<http, nextSid>>
     ELSE IF ~IsClassTeacher(c, u)
     THEN /\ out' = By(u, Responded(h, c, Failure(HTTP_403_FORBIDDEN,
                                                 "Forbidden, not class teacher")))
          /\ UNCHANGED <<http, nextSid>>
     ELSE IF session_exists(store, c)
     THEN /\ out' = By(u, Responded(h, c, Failure(HTTP_400_BAD_REQUEST,
                                 "Active session already exists for this class")))
          /\ UNCHANGED <<http, nextSid>>
     ELSE /\ nextSid <= MaxSessions
          /\ http' = [http EXCEPT ![h] =
               [pc |-> "set", classId |-> c, user |-> u,
                session |-> [sessionId |-> uuid4, classId |-> c,
                             startedAt |-> nextSid, attendance |-> << >>]]]
          /\ nextSid' = nextSid + 1
          /\ out' = Quiet

\* set_active_session(str(class_id), session_data) and the 200 response
StartStore(h) ==
  /\ http[h].pc = "set"
  /\ UNCHANGED <<sock, group>>
  /\ store' = set_active_session(store, http[h].classId, http[h].session)
  /\ out' = By(http[h].user, Responded(h, http[h].classId,
              [NoResp EXCEPT !.status = HTTP_200_OK,
                             !.sessionId = http[h].session.sessionId,
                             !.classId = http[h].classId,
                             !.startedAt = http[h].session.startedAt]))
  /\ http' = [http EXCEPT ![h] = IdleReq]
  /\ UNCHANGED <<records, students, conn, nextSid, nMarks>>

(* ---------------------- classes/consumers.py --------------------------- *)
\* connect that joins the group before it looks at the user
Connect_joins_first(k, token) ==
  /\ sock[k].state = "new"
  /\ group' = group \cup {k}
  /\ LET user_id == JWTAuthMiddleware(token) IN
     IF user_id = NoUser
     THEN /\ sock' = [sock EXCEPT ![k] = [state |-> "closed", token |-> token, user_id |-> NoUser]]
          /\ out' = Sent(k, "connect", Error("Authentication required. Please provide a valid JWT token."))
     ELSE /\ sock' = [sock EXCEPT ![k] = [state |-> "open", token |-> token, user_id |-> user_id]]
          /\ out' = Sent(k, "connect",
                [NoFrame EXCEPT !.event = "CONNECTED", !.userId = user_id,
                                !.role = UserRole[user_id]])
  /\ UNCHANGED <<store, records, students, conn, http, nextSid, nMarks>>

\* connect, with the scope JWTAuthMiddleware built from the token: an
\* anonymous connection is accepted, sent an ERROR and closed; any other joins
\* the group, is accepted and sent CONNECTED
Connect(k, token) ==
  /\ sock[k].state = "new"
  /\ LET user_id == JWTAuthMiddleware(token) IN
     IF user_id = NoUser
     THEN /\ sock' = [sock EXCEPT ![k] = [state |-> "closed", token |-> token, user_id |-> NoUser]]
          /\ out' = Sent(k, "connect", Error("Authentication required. Please provide a valid JWT token."))
          /\ UNCHANGED group
     ELSE /\ group' = group \cup {k}
          /\ sock' = [sock EXCEPT ![k] = [state |-> "open", token |-> token, user_id |-> user_id]]
          /\ out' = Sent(k, "connect",
                [NoFrame EXCEPT !.event = "CONNECTED", !.userId = user_id,
                                !.role = UserRole[user_id]])
  /\ UNCHANGED <<store, records, students, conn, http, nextSid, nMarks>>

\* a disconnect that also deletes the sessions stored
Disconnect_clears(k) ==
  /\ sock[k].state = "open"
  /\ conn[k].pc = "idle"
  /\ sock' = [sock EXCEPT ![k].state = "closed"]
  /\ group' = group \ {k}
  /\ out' = Quiet
  /\ store' = [c \in DOMAIN store |-> None]
  /\ UNCHANGED <<records, students, conn, http, nextSid, nMarks>>

\* disconnect: the connection leaves the group.  A consumer handles its
\* messages one at a time, so disconnect runs with no handler of the
\* connection in flight
Disconnect(k) ==
  /\ sock[k].state = "open"
  /\ conn[k].pc = "idle"
  /\ sock' = [sock EXCEPT ![k].state = "closed"]
  /\ group' = group \ {k}
  /\ out' = Quiet
  /\ UNCHANGED <<store, records, students, conn, http, nextSid, nMarks>>

\* a channel layer that hands every published message to every connection
Broadcast_all(o, g, k) == o.published
\* attendance_broadcast: the frame a step's group_send makes connection k
\* send to its client
Broadcast(o, g, k) == IF k \in g THEN o.published ELSE NoFrame

\* the text frames that receive answers itself: text that is no JSON, JSON
\* that is no object (data.get raises AttributeError), an unknown event
receive_error ==
  ("{" :> "Invalid JSON format") @@
  ("null" :> "'NoneType' object has no attribute 'get'") @@
  ("{\"event\": \"PING\"}" :> "Unknown event: PING")

\* a receive that closes the socket after its ERROR
ReceiveOther_closes(k, text_data) ==
  /\ sock[k].state = "open"
  /\ conn[k].pc = "idle"
  /\ out' = Sent(k, "", Error(receive_error[text_data]))
  /\ sock' = [sock EXCEPT ![k].state = "closed"]
  /\ group' = group \ {k}
  /\ UNCHANGED <<store, records, students, conn, http, nextSid, nMarks>>

\* receive of a frame that reaches no handler
ReceiveOther(k, text_data) ==
  /\ sock[k].state = "open"
  /\ conn[k].pc = "idle"
  /\ out' = Sent(k, "", Error(receive_error[text_data]))
  /\ UNCHANGED <<store, records, students, conn, http, nextSid, nMarks, sock, group>>

\* a field the payload lacks (payload.get gives None, which is falsy)
Missing == ""

\* a handler that got past its checks, with the payload it works on
Begin(pc, c, s, v) ==
  [IdleConn EXCEPT !.pc = pc, !.classId = c, !.studentId = s, !.status = v]

\* receive -> handle_attendance_marked up to the session_exists check
ReceiveAttendanceMarked(k, c, s, v) ==
  /\ sock[k].state = "open"
  /\ conn[k].pc = "idle"
  /\ UNCHANGED <<sock, group>>
  /\ UNCHANGED <<store, records, students, http, nextSid>>
  /\ IF ConnRole[k] # "TEACHER"
     THEN /\ out' = On(c, s, v, Sent(k, "ATTENDANCE_MARKED",
                                      Error("Only teachers can mark attendance")))
          /\ UNCHANGED <<conn, nMarks>>
     ELSE IF c = Missing \/ s = Missing \/ v = Missing
     THEN /\ out' = On(c, s, v, Sent(k, "ATTENDANCE_MARKED",
                                      Error("Missing classId, studentId or status")))
          /\ UNCHANGED <<conn, nMarks>>
     ELSE IF ~session_exists(store, c)
     THEN /\ out' = On(c, s, v, Sent(k, "ATTENDANCE_MARKED",
                                      Error("No active attendance session for this class")))
          /\ UNCHANGED <<conn, nMarks>>
     ELSE /\ nMarks < MaxMarks
          /\ nMarks' = nMarks + 1
          /\ out' = Quiet
          /\ conn' = [conn EXCEPT ![k] = Begin("update_get", c, s, v)]

\* handle_attendance_marked's group_send
MarkedEvent(c, s, v) ==
  [NoFrame EXCEPT !.event = "ATTENDANCE_MARKED", !.classId = c, !.studentId = s, !.status = v]

\* update_attendance, its read: session = get_active_session(class_id), and
\* the update of the copy in memory; with no session it returns None and the
\* handler goes on to its group_send
UpdateGet(k) ==
  /\ conn[k].pc = "update_get"
  /\ UNCHANGED <<sock, group>>
  /\ LET session == get_active_session(store, conn[k].classId) IN
       IF session # None
       THEN /\ conn' = [conn EXCEPT ![k].pc = "update_set",
                                    ![k].session =
                                      [session EXCEPT !.attendance =
                                         put_attendance(@, conn[k].studentId, conn[k].status)]]
            /\ out' = Quiet
       ELSE /\ conn' = [conn EXCEPT ![k] = IdleConn]
            /\ out' = Published(k, "ATTENDANCE_MARKED",
                        MarkedEvent(conn[k].classId, conn[k].studentId, conn[k].status))
  /\ UNCHANGED <<store, records, students, http, nextSid, nMarks>>

\* a mark that is written and never broadcast
UpdateSet_unpublished(k) ==
  /\ conn[k].pc = "update_set"
  /\ UNCHANGED <<sock, group>>
  /\ store' = set_active_session(store, conn[k].classId, conn[k].session)
  /\ conn' = [conn EXCEPT ![k] = IdleConn]
  /\ out' = Quiet
  /\ UNCHANGED <<records, students, http, nextSid, nMarks>>

\* update_attendance, its write: set_active_session(class_id, session), and
\* the handler's group_send
UpdateSet(k) ==
  /\ conn[k].pc = "update_set"
  /\ UNCHANGED <<sock, group>>
  /\ store' = set_active_session(store, conn[k].classId, conn[k].session)
  /\ conn' = [conn EXCEPT ![k] = IdleConn]
  /\ out' = Published(k, "ATTENDANCE_MARKED",
              MarkedEvent(conn[k].classId, conn[k].studentId, conn[k].status))
  /\ UNCHANGED <<records, students, http, nextSid, nMarks>>

\* receive -> handle_today_summary
ReceiveTodaySummary(k, c) ==
  /\ sock[k].state = "open"
  /\ conn[k].pc = "idle"
  /\ UNCHANGED <<sock, group>>
  /\ UNCHANGED <<store, records, students, conn, http, nextSid, nMarks>>
  /\ LET session == get_active_session(store, c)
         err(msg) == On(c, "", "", Sent(k, "TODAY_SUMMARY", Error(msg))) IN
     IF ConnRole[k] # "TEACHER"
     THEN out' = err("Only teachers can request attendance summary")
     ELSE IF c = Missing
     THEN out' = err("Class ID required")
     ELSE IF session = None
     THEN out' = err("No active attendance session for this class")
     ELSE LET sum == Summary(session.attendance) IN
          out' = On(c, "", "", Published(k, "TODAY_SUMMARY",
            [NoFrame EXCEPT !.event = "TODAY_SUMMARY", !.classId = c,
                            !.present = sum.present, !.absent = sum.absent,
                            !.total = sum.total]))

\* handle_my_attendance without its check of classId
ReceiveMyAttendance_unchecked(k, c) ==
  /\ sock[k].state = "open"
  /\ conn[k].pc = "idle"
  /\ UNCHANGED <<sock, group>>
  /\ UNCHANGED <<store, records, students, conn, http, nextSid, nMarks>>
  /\ LET student_id == str(ConnUser[k])
         session == IF c \in DOMAIN store THEN get_active_session(store, c) ELSE None
         reply(frame) == On(c, "", "", Sent(k, "MY_ATTENDANCE", frame)) IN
     IF ConnRole[k] # "STUDENT"
     THEN out' = reply(Error("Only students can request their own attendance"))
     ELSE IF session = None \/ student_id \notin Keys(session.attendance)
     THEN out' = reply([NoFrame EXCEPT !.event = "MY_ATTENDANCE", !.status = "not yet updated"])
     ELSE out' = reply([NoFrame EXCEPT !.event = "MY_ATTENDANCE",
                                       !.status = Get(session.attendance, student_id)])

\* receive -> handle_my_attendance
ReceiveMyAttendance(k, c) ==
  /\ sock[k].state = "open"
  /\ conn[k].pc = "idle"
  /\ UNCHANGED <<sock, group>>
  /\ UNCHANGED <<store, records, students, conn, http, nextSid, nMarks>>
  /\ LET student_id == str(ConnUser[k])
         session == get_active_session(store, c)
         reply(frame) == On(c, "", "", Sent(k, "MY_ATTENDANCE", frame)) IN
     IF ConnRole[k] # "STUDENT"
     THEN out' = reply(Error("Only students can request their own attendance"))
     ELSE IF c = Missing
     THEN out' = reply(Error("Class ID required"))
     ELSE IF session = None \/ student_id \notin Keys(session.attendance)
     THEN out' = reply([NoFrame EXCEPT !.event = "MY_ATTENDANCE", !.status = "not yet updated"])
     ELSE out' = reply([NoFrame EXCEPT !.event = "MY_ATTENDANCE",
                                       !.status = Get(session.attendance, student_id)])

\* a table without the unique_together constraint
unique_together_dropped(rows, session_id, student) == TRUE

\* unique_together = [["session_id", "student"]]: whether the table takes a
\* row for (session_id, student)
unique_together(rows, session_id, student) ==
  ~\E r \in BagToSet(rows) : r.session_id = session_id /\ r.student = student

\* Attendance(...) built and never saved
create_unsaved(rows, session_id, c, student, v) == rows

\* Attendance.objects.create(...): the table with the new row
create(rows, session_id, c, student, v) ==
  rows (+) SetToBag({[session_id |-> session_id, classId |-> c,
                      student |-> student, status |-> v]})

\* the orders in which class_instance.students.all() can list a set of users
\* (the query has no ORDER BY)
RECURSIVE Orders(_)
Orders(S) ==
  IF S = {} THEN {<< >>}
  ELSE UNION {{<<x>> \o o : o \in Orders(S \ {x})} : x \in S}

\* the loop over the enrolled students left out
mark_unmarked_skipped(att, enrolled) == att

\* "Mark all unmarked students as absent": the loop over the enrolled students
RECURSIVE mark_unmarked_absent(_, _)
mark_unmarked_absent(att, enrolled) ==
  IF enrolled = << >> THEN att
  ELSE mark_unmarked_absent(
         IF str(Head(enrolled)) \notin Keys(att)
         THEN Append(att, <<str(Head(enrolled)), "absent">>) ELSE att,
         Tail(enrolled))

\* receive -> handle_done up to the read of the session
ReceiveDone(k, c) ==
  /\ sock[k].state = "open"
  /\ conn[k].pc = "idle"
  /\ UNCHANGED <<sock, group>>
  /\ UNCHANGED <<store, records, students, http, nextSid, nMarks>>
  /\ IF ConnRole[k] # "TEACHER"
     THEN /\ out' = On(c, "", "", Sent(k, "DONE", Error("Only teachers can end attendance session")))
          /\ UNCHANGED conn
     ELSE IF c = Missing
     THEN /\ out' = On(c, "", "", Sent(k, "DONE", Error("Class ID required")))
          /\ UNCHANGED conn
     ELSE IF get_active_session(store, c) = None
     THEN /\ out' = On(c, "", "", Sent(k, "DONE",
                                       Error("No active attendance session for this class")))
          /\ UNCHANGED conn
     ELSE /\ out' = Quiet
          /\ conn' = [conn EXCEPT ![k] =
               [Begin("persist", c, "", "") EXCEPT
                  !.session = get_active_session(store, c)]]

\* persist_attendance that clears the session before the records are created
PersistBegin_clears_first(k) ==
  /\ conn[k].pc = "persist"
  /\ UNCHANGED <<sock, group>>
  /\ store' = clear_active_session(store, conn[k].classId)
  /\ conn' = [conn EXCEPT ![k].dict = conn[k].session.attendance, ![k].i = 1,
                          ![k].pc = IF conn[k].session.attendance = << >>
                                    THEN "clear" ELSE "create"]
  /\ out' = Quiet
  /\ UNCHANGED <<records, students, http, nextSid, nMarks>>

\* persist_attendance up to the loop that creates the records: the class and
\* its enrolled students are read, the unmarked ones are put down as absent
PersistBegin(k) ==
  /\ conn[k].pc = "persist"
  /\ UNCHANGED <<sock, group>>
  /\ UNCHANGED <<store, records, students, http, nextSid, nMarks>>
  /\ IF ~ClassExists(conn[k].session.classId)
     THEN /\ out' = Sent(k, "DONE", Error("Failed to persist attendance"))
          /\ conn' = [conn EXCEPT ![k] = IdleConn]
     ELSE /\ \E enrolled_students \in Orders(students[conn[k].session.classId]) :
               LET attendance_dict ==
                     mark_unmarked_absent(conn[k].session.attendance, enrolled_students) IN
               conn' = [conn EXCEPT ![k].dict = attendance_dict, ![k].i = 1,
                                    ![k].pc = IF attendance_dict = << >>
                                              THEN "clear" ELSE "create"]
          /\ out' = Quiet

\* persist_attendance, one turn of the loop over attendance_dict.items()
PersistCreate(k) ==
  /\ conn[k].pc = "create"
  /\ UNCHANGED <<sock, group>>
  /\ UNCHANGED <<store, students, http, nextSid, nMarks>>
  /\ LET student_id_str == conn[k].dict[conn[k].i][1]
         status == conn[k].dict[conn[k].i][2]
         student == UserOfId[student_id_str]
         session_id == conn[k].session.sessionId
         next == IF conn[k].i = Len(conn[k].dict) THEN "clear" ELSE "create" IN
     IF student = NoUser
     THEN \* User.DoesNotExist: continue
          /\ conn' = [conn EXCEPT ![k].i = @ + 1, ![k].pc = next]
          /\ out' = Quiet
          /\ UNCHANGED records
     ELSE IF ~unique_together(records, session_id, student)
     THEN \* IntegrityError, which receive catches
          /\ out' = Sent(k, "DONE", Error("IntegrityError"))
          /\ conn' = [conn EXCEPT ![k] = IdleConn]
          /\ UNCHANGED records
     ELSE /\ records' = create(records, session_id, conn[k].session.classId, student, status)
          /\ conn' = [conn EXCEPT ![k].i = @ + 1, ![k].pc = next]
          /\ out' = Quiet

\* handle_done: clear_active_session(class_id)
DoneClear(k) ==
  /\ conn[k].pc = "clear"
  /\ UNCHANGED <<sock, group>>
  /\ store' = clear_active_session(store, conn[k].classId)
  /\ conn' = [conn EXCEPT ![k].pc = "done_send"]
  /\ out' = Quiet
  /\ UNCHANGED <<records, students, http, nextSid, nMarks>>

\* handle_done, its group_send with the summary persist_attendance returned
DoneSend(k) ==
  /\ conn[k].pc = "done_send"
  /\ UNCHANGED <<sock, group>>
  /\ LET summary == Summary(conn[k].dict) IN
       out' = Published(k, "DONE",
         [NoFrame EXCEPT !.event = "DONE", !.classId = conn[k].classId,
                         !.status = "Attendance persisted",
                         !.present = summary.present, !.absent = summary.absent,
                         !.total = summary.total])
  /\ conn' = [conn EXCEPT ![k] = IdleConn]
  /\ UNCHANGED <<store, records, students, http, nextSid, nMarks>>

(* --------------------------- specification ----------------------------- *)
\* two teacher connections and one request at a time, sending well-formed
\* events for the class
Init == InitOf(("k1" :> 1) @@ ("k2" :> 1), {"h1"})

Next ==
  \/ \E h \in DOMAIN http : StartAttendance(h, 1, "1")
  \/ \E h \in DOMAIN http : StartStore(h)
  \/ \E k \in DOMAIN conn, m \in MarkInputs : ReceiveAttendanceMarked(k, "1", m[1], m[2])
  \/ \E k \in DOMAIN conn : UpdateGet(k)
  \/ \E k \in DOMAIN conn : UpdateSet(k)
  \/ \E k \in DOMAIN conn : ReceiveTodaySummary(k, "1")
  \/ \E k \in DOMAIN conn : ReceiveMyAttendance(k, "1")
  \/ \E k \in DOMAIN conn : ReceiveDone(k, "1")
  \/ \E k \in DOMAIN conn : PersistBegin(k)
  \/ \E k \in DOMAIN conn : PersistCreate(k)
  \/ \E k \in DOMAIN conn : DoneClear(k)
  \/ \E k \in DOMAIN conn : DoneSend(k)

Spec == Init /\ [][Next]_vars

\* the events in all their shapes: a teacher's connection (k1) and a student's
\* (k3), both open, three students enrolled
EventStudents == ("1" :> {2, 3, 4}) @@ ("2" :> {3})
EventMarks ==
  {<<"1", "2", "present">>, <<"1", "3", "absent">>, <<"1", "2", "late">>,
   <<Missing, "2", "present">>, <<"1", Missing, "present">>, <<"1", "2", Missing>>}

InitEvents ==
  /\ store = [c \in ClassIdInputs |-> None]
  /\ records = EmptyBag
  /\ students = EventStudents
  /\ conn = [k \in {"k1", "k3"} |-> IdleConn]
  /\ http = [h \in {"h1"} |-> IdleReq]
  /\ out = Quiet
  /\ nextSid = 1
  /\ nMarks = 0
  /\ sock = ("k1" :> [state |-> "open", token |-> "jwt1", user_id |-> 1]) @@
            ("k3" :> [state |-> "open", token |-> "jwt2", user_id |-> 2])
  /\ group = {"k1", "k3"}

NextEvents ==
  \/ \E h \in DOMAIN http, u \in {1, 2, 5, 6}, c \in {"1", "7"} : StartAttendance(h, u, c)
  \/ \E h \in DOMAIN http : StartStore(h)
  \/ \E k \in DOMAIN conn, m \in EventMarks : ReceiveAttendanceMarked(k, m[1], m[2], m[3])
  \/ \E k \in DOMAIN conn : UpdateGet(k)
  \/ \E k \in DOMAIN conn : UpdateSet(k)
  \/ \E k \in DOMAIN conn, c \in {"1", Missing} : ReceiveTodaySummary(k, c)
  \/ \E k \in DOMAIN conn, c \in {"1", Missing} : ReceiveMyAttendance(k, c)
  \/ \E k \in DOMAIN conn, c \in {"1", Missing} : ReceiveDone(k, c)
  \/ \E k \in DOMAIN conn : PersistBegin(k)
  \/ \E k \in DOMAIN conn : PersistCreate(k)
  \/ \E k \in DOMAIN conn : DoneClear(k)
  \/ \E k \in DOMAIN conn : DoneSend(k)

SpecEvents == InitEvents /\ [][NextEvents]_vars

\* the gateway: a connection that will not authenticate (k0), a teacher's (k1)
\* and a student's (k3), none connected yet; they connect, send events and
\* disconnect
GatewayTokens == ("k0" :> {"", "garbage", "expired", "jwt8"}) @@ ("k1" :> {"jwt1"}) @@ ("k3" :> {"jwt2"})

InitGateway ==
  /\ store = [c \in ClassIdInputs |-> None]
  /\ records = EmptyBag
  /\ students = InitialStudents
  /\ conn = [k \in DOMAIN GatewayTokens |-> IdleConn]
  /\ http = [h \in {"h1"} |-> IdleReq]
  /\ out = Quiet
  /\ nextSid = 1
  /\ nMarks = 0
  /\ sock = [k \in DOMAIN GatewayTokens |-> NewSock]
  /\ group = {}

NextGateway ==
  \/ \E k \in DOMAIN conn : \E token \in GatewayTokens[k] : Connect(k, token)
  \/ \E k \in DOMAIN conn : Disconnect(k)
  \/ \E k \in DOMAIN conn : \E text_data \in DOMAIN receive_error : ReceiveOther(k, text_data)
  \/ \E h \in DOMAIN http : StartAttendance(h, 1, "1")
  \/ \E h \in DOMAIN http : StartStore(h)
  \/ \E k \in DOMAIN conn : ReceiveAttendanceMarked(k, "1", "2", "present")
  \/ \E k \in DOMAIN conn : UpdateGet(k)
  \/ \E k \in DOMAIN conn : UpdateSet(k)
  \/ \E k \in DOMAIN conn : ReceiveTodaySummary(k, "1")
  \/ \E k \in DOMAIN conn : ReceiveMyAttendance(k, "1")
  \/ \E k \in DOMAIN conn : ReceiveDone(k, "1")
  \/ \E k \in DOMAIN conn : PersistBegin(k)
  \/ \E k \in DOMAIN conn : PersistCreate(k)
  \/ \E k \in DOMAIN conn : DoneClear(k)
  \/ \E k \in DOMAIN conn : DoneSend(k)

SpecGateway == InitGateway /\ [][NextGateway]_vars

\* two teacher connections that finalize and send frames that reach no
\* handler: every way receive has of answering ERROR by itself
NextErrors ==
  \/ \E h \in DOMAIN http : StartAttendance(h, 1, "1")
  \/ \E h \in DOMAIN http : StartStore(h)
  \/ \E k \in DOMAIN conn : \E text_data \in DOMAIN receive_error : ReceiveOther(k, text_data)
  \/ \E k \in DOMAIN conn : ReceiveDone(k, "1")
  \/ \E k \in DOMAIN conn : PersistBegin(k)
  \/ \E k \in DOMAIN conn : PersistCreate(k)
  \/ \E k \in DOMAIN conn : DoneClear(k)
  \/ \E k \in DOMAIN conn : DoneSend(k)

SpecErrors == Init /\ [][NextErrors]_vars

\* two start requests in flight at once for the class of teacher 1, whose
\* connection marks and finalizes
InitStarts == InitOf(("k1" :> 1), {"h1", "h2"})

NextStarts ==
  \/ \E h \in DOMAIN http : StartAttendance(h, 1, "1")
  \/ \E h \in DOMAIN http : StartStore(h)
  \/ \E k \in DOMAIN conn, m \in MarkInputs : ReceiveAttendanceMarked(k, "1", m[1], m[2])
  \/ \E k \in DOMAIN conn : UpdateGet(k)
  \/ \E k \in DOMAIN conn : UpdateSet(k)
  \/ \E k \in DOMAIN conn : ReceiveDone(k, "1")
  \/ \E k \in DOMAIN conn : PersistBegin(k)
  \/ \E k \in DOMAIN conn : PersistCreate(k)
  \/ \E k \in DOMAIN conn : DoneClear(k)
  \/ \E k \in DOMAIN conn : DoneSend(k)

SpecStarts == InitStarts /\ [][NextStarts]_vars

\* two classes, each with its teacher: teacher 1 starts class "1", teacher 5
\* class "2", and on their connections (k1, k5) each marks student 3, who is
\* enrolled in both, asks for summaries and finalizes in the own class
ClassOwners == {<<1, "1">>, <<5, "2">>}
ClassConns == {<<"k1", "1">>, <<"k5", "2">>}
InitClasses == InitOf(("k1" :> 1) @@ ("k5" :> 5), {"h1"})

NextClasses ==
  \/ \E h \in DOMAIN http, s \in ClassOwners : StartAttendance(h, s[1], s[2])
  \/ \E h \in DOMAIN http : StartStore(h)
  \/ \E s \in ClassConns : ReceiveAttendanceMarked(s[1], s[2], "3", "present")
  \/ \E k \in DOMAIN conn : UpdateGet(k)
  \/ \E k \in DOMAIN conn : UpdateSet(k)
  \/ \E s \in ClassConns : ReceiveTodaySummary(s[1], s[2])
  \/ \E s \in ClassConns : ReceiveMyAttendance(s[1], s[2])
  \/ \E s \in ClassConns : ReceiveDone(s[1], s[2])
  \/ \E k \in DOMAIN conn : PersistBegin(k)
  \/ \E k \in DOMAIN conn : PersistCreate(k)
  \/ \E k \in DOMAIN conn : DoneClear(k)
  \/ \E k \in DOMAIN conn : DoneSend(k)

SpecClasses == InitClasses /\ [][NextClasses]_vars

\* a class as it is created, before anyone is enrolled in it (students is
\* blank=True): class "1" with no student, its teacher on two connections
NoStudents == ("1" :> {}) @@ ("2" :> {3})
InitFinalize ==
  /\ store = [c \in ClassIdInputs |-> None]
  /\ records = EmptyBag
  /\ students = NoStudents
  /\ conn = [k \in {"k1", "k2"} |-> IdleConn]
  /\ http = [h \in {"h1"} |-> IdleReq]
  /\ out = Quiet
  /\ nextSid = 1
  /\ nMarks = 0
  /\ sock = [k \in {"k1", "k2"} |-> [state |-> "open", token |-> "jwt1", user_id |-> 1]]
  /\ group = {"k1", "k2"}

NextFinalize ==
  \/ \E h \in DOMAIN http : StartAttendance(h, 1, "1")
  \/ \E h \in DOMAIN http : StartStore(h)
  \/ \E k \in DOMAIN conn, m \in MarkInputs : ReceiveAttendanceMarked(k, "1", m[1], m[2])
  \/ \E k \in DOMAIN conn : UpdateGet(k)
  \/ \E k \in DOMAIN conn : UpdateSet(k)
  \/ \E k \in DOMAIN conn : ReceiveDone(k, "1")
  \/ \E k \in DOMAIN conn : PersistBegin(k)
  \/ \E k \in DOMAIN conn : PersistCreate(k)
  \/ \E k \in DOMAIN conn : DoneClear(k)
  \/ \E k \in DOMAIN conn : DoneSend(k)

SpecFinalize == InitFinalize /\ [][NextFinalize]_vars

(* ------------------------------ claims --------------------------------- *)
\* the rows of the Attendance table for one session
RowsOf(session_id) == {r \in BagToSet(records) : r.session_id = session_id}
\* the row, if any, of one student in one session, with the status given
HasRow(session_id, student, v) ==
  \E r \in RowsOf(session_id) : r.student = student /\ r.status = v

\* C1: the store holds at most one session per class (it is keyed by the class
\* id), and a start-attendance request for a class whose session is stored at
\* its session_exists check is answered "Active session already exists for this
\* class", stores nothing and leaves the stored session as it is.
C1_StartConflict ==
  [][\A h \in DOMAIN http, c \in ClassIdInputs :
       (/\ http[h].pc = "idle"
        /\ store[c] # None
        /\ \/ http'[h].pc = "set" /\ http'[h].classId = c
           \/ out'.who = h /\ out'.classId = c)
       => (/\ out'.resp.error = "Active session already exists for this class"
           /\ http'[h].pc = "idle"
           /\ store' = store)]_vars

\* a start was refused while a session with a mark in it is stored
C1_Witness ==
  /\ out.resp.error = "Active session already exists for this class"
  /\ store["1"] # None
  /\ store["1"].attendance # << >>

\* C2: no mark loses another mark's update: the write of a mark for one
\* student leaves every other student's entry of the stored session in place,
\* with its status, so that two marks for different students both end up stored.
C2_NoLostUpdate ==
  [][\A k \in DOMAIN conn :
       LET c == conn[k].classId IN
       (/\ conn[k].pc = "update_set" /\ conn'[k].pc = "idle"
        /\ store[c] # None
        /\ store[c].sessionId = conn[k].session.sessionId)
       => \A i \in 1..Len(store[c].attendance) :
            LET e == store[c].attendance[i] IN
            e[1] # conn[k].studentId
              => /\ e[1] \in Keys(store'[c].attendance)
                 /\ Get(store'[c].attendance, e[1]) = e[2]]_vars

\* C3: when a DONE deletes the session, every mark written to the stored
\* session (for an id that is a user's) is in the records committed for that
\* session, with the status written.
C3_FinalizeExcludesMark ==
  [][\A k \in DOMAIN conn :
       LET c == conn[k].classId IN
       (conn[k].pc = "clear" /\ conn'[k].pc = "done_send" /\ store[c] # None)
       => \A i \in 1..Len(store[c].attendance) :
            LET e == store[c].attendance[i] IN
            UserOfId[e[1]] # NoUser
              => HasRow(store[c].sessionId, UserOfId[e[1]], e[2])]_vars

\* C4: a class that has no stored session gets one only by the store step of a
\* start-attendance request for that class; no mark brings a session back.
C4_OnlyStartCreates ==
  [][\A c \in ClassIdInputs :
       (store[c] = None /\ store'[c] # None)
       => \E h \in DOMAIN http :
            /\ http[h].pc = "set" /\ http[h].classId = c
            /\ http'[h].pc = "idle"
            /\ store'[c] = http[h].session]_vars

\* C5: a DONE that meets a record already committed for its (sessionId,
\* student) takes the attempt as applied: it creates no second record and goes
\* on to the next entry (and so to the deletion and the DONE broadcast).
C5_FinalizeRetrySafe ==
  [][\A k \in DOMAIN conn :
       (/\ conn[k].pc = "create" /\ conn'[k] # conn[k]
        /\ \E r \in RowsOf(conn[k].session.sessionId) :
             r.student = UserOfId[conn[k].dict[conn[k].i][1]])
       => (conn'[k].pc \in {"create", "clear"} /\ records' = records)]_vars

\* C6: no step of a DONE before its clear_active_session changes the store,
\* and a DONE that ends without success (refused at once, or stopped in
\* persist_attendance) leaves the store as it was, sends the sender an ERROR
\* frame and publishes nothing.
C6_FailedFinalizeKeepsSession ==
  [][\A k \in DOMAIN conn :
       /\ (conn[k].pc \in {"persist", "create"} /\ conn'[k] # conn[k])
            => store' = store
       /\ (\/ conn[k].pc \in {"persist", "create"} /\ conn'[k].pc = "idle"
           \/ conn[k].pc = "idle" /\ conn'[k].pc = "idle"
                /\ out'.who = k /\ out'.handler = "DONE")
            => (/\ store' = store
                /\ out'.who = k
                /\ out'.sent.event = "ERROR"
                /\ out'.published = NoFrame)]_vars

\* a DONE has just failed on a record, and the session, with marks, is stored
C6_Witness ==
  /\ out.handler = "DONE"
  /\ out.sent = Error("IntegrityError")
  /\ store["1"] # None
  /\ store["1"].attendance # << >>
  /\ records # EmptyBag

\* C7: a session leaves the store only in the clear step of a DONE, and by
\* then the table holds exactly one record, with the DONE's sessionId and the
\* status in its attendance_dict, for every id of that dict (the session's
\* attendance as the DONE read it, with the enrolled students defaulted to
\* absent) that is a user's; a DONE event is published only by a DONE that is
\* past that step.
C7_DeleteAfterCommit ==
  [][/\ \A c \in ClassIdInputs :
          (store[c] # None /\ store'[c] = None)
          => \E k \in DOMAIN conn :
               /\ conn[k].pc = "clear" /\ conn'[k].pc = "done_send"
               /\ conn[k].classId = c
               /\ \A i \in 1..Len(conn[k].dict) :
                    LET e == conn[k].dict[i] IN
                    UserOfId[e[1]] # NoUser
                      => /\ HasRow(conn[k].session.sessionId, UserOfId[e[1]], e[2])
                         /\ Cardinality({r \in RowsOf(conn[k].session.sessionId) :
                                           r.student = UserOfId[e[1]]}) = 1
     /\ \A k \in DOMAIN conn :
          /\ (conn'[k].pc = "done_send" /\ conn[k].pc # "done_send")
               => (conn[k].pc = "clear" /\ store'[conn[k].classId] = None)
          /\ (out'.who = k /\ out'.published.event = "DONE")
               => conn[k].pc = "done_send"]_vars

\* a DONE has deleted a session that held a mark for an enrolled student and
\* one for an id that is no user's
C7_Witness ==
  \E k \in DOMAIN conn :
    /\ conn[k].pc = "done_send"
    /\ store[conn[k].classId] = None
    /\ {"2", "9"} \subseteq Keys(conn[k].session.attendance)

\* C8: once a DONE has deleted the session it read, every student enrolled in
\* the class has a record of that session: with status absent if the session
\* held no mark for the student, with the status the session held otherwise.
C8_UnmarkedAbsent ==
  \A k \in DOMAIN conn :
    conn[k].pc = "done_send"
    => \A u \in students[conn[k].classId] :
         HasRow(conn[k].session.sessionId, u,
                IF str(u) \in Keys(conn[k].session.attendance)
                THEN Get(conn[k].session.attendance, str(u)) ELSE "absent")

\* a DONE has succeeded for a session in which student 2 was marked present
\* and student 3 was not marked
C8_Witness ==
  \E k \in DOMAIN conn :
    /\ conn[k].pc = "done_send"
    /\ "2" \in Keys(conn[k].session.attendance)
    /\ Get(conn[k].session.attendance, "2") = "present"
    /\ "3" \notin Keys(conn[k].session.attendance)

\* C9: once a DONE has deleted the session it read, the records of that
\* session are one per student enrolled in the class and none for anyone else.
C9_OnlyEnrolledRecorded ==
  \A k \in DOMAIN conn :
    conn[k].pc = "done_send"
    => /\ {r.student : r \in RowsOf(conn[k].session.sessionId)} = students[conn[k].classId]
       /\ Cardinality(RowsOf(conn[k].session.sessionId))
            = Cardinality(students[conn[k].classId])

\* C10: the Attendance table never holds two rows with the same session_id
\* and student.
C10_UniqueRecords ==
  \A r \in BagToSet(records) :
    /\ CopiesIn(r, records) = 1
    /\ \A q \in BagToSet(records) :
         (q.session_id = r.session_id /\ q.student = r.student) => q = r

\* a create has just been refused for a row the table already holds
C10_Witness ==
  /\ out.sent = Error("IntegrityError")
  /\ \E r \in BagToSet(records) : r.student = 2

\* the entries of an attendance dict, and those of the students other than s
Entries(att) == {att[i] : i \in 1..Len(att)}
Others(att, s) == {e \in Entries(att) : e[1] # s}
\* the write of connection k's mark meets the session its update_attendance
\* read: the same session, and nothing but the entry of the mark's student
\* differs between the stored session and the copy about to be written
Uninterfered(k) ==
  LET c == conn[k].classId IN
  /\ conn[k].pc = "update_set"
  /\ store[c] # None
  /\ store[c].sessionId = conn[k].session.sessionId
  /\ Others(store[c].attendance, conn[k].studentId)
       = Others(conn[k].session.attendance, conn[k].studentId)

\* C11: the counts a TODAY_SUMMARY publishes satisfy present + absent = total,
\* and total is the number of keys of the attendance stored at the query.
C11_SummaryCounts ==
  [][out'.published.event = "TODAY_SUMMARY"
       => LET f == out'.published IN
          /\ store[f.classId] # None
          /\ f.total = Cardinality(Keys(store[f.classId].attendance))
          /\ f.present + f.absent = f.total]_vars

\* C12: a mark of (studentId, status) whose write meets a stored session that
\* already holds that status for that student (the mark applied a second time
\* in a row) leaves the stored session as it is: the same sessionId and
\* startedAt, the same entries, no key more.
C12_MarkIdempotent ==
  [][\A k \in DOMAIN conn :
       LET c == conn[k].classId IN
       (/\ Uninterfered(k) /\ conn'[k].pc = "idle"
        /\ <<conn[k].studentId, conn[k].status>> \in Entries(store[c].attendance))
       => /\ store'[c] # None
          /\ store'[c].sessionId = store[c].sessionId
          /\ store'[c].startedAt = store[c].startedAt
          /\ Entries(store'[c].attendance) = Entries(store[c].attendance)
          /\ Len(store'[c].attendance) = Len(store[c].attendance)]_vars

\* a mark has read a session that already holds its status for its student,
\* and is about to write
C12_Witness ==
  \E k \in DOMAIN conn :
    /\ Uninterfered(k)
    /\ <<conn[k].studentId, conn[k].status>> \in Entries(store[conn[k].classId].attendance)

\* C13: a mark for a class with no stored session is answered with the error
\* "No active attendance session for this class", stores nothing, publishes
\* nothing and goes no further; a mark that runs without interference leaves
\* the stored session with attendance[studentId] = status, every other entry,
\* the sessionId and startedAt as they were, and publishes one
\* ATTENDANCE_MARKED event with its classId, studentId and status.
C13_MarkUpserts ==
  [][\A k \in DOMAIN conn :
       LET c == conn[k].classId  s == conn[k].studentId  v == conn[k].status IN
       /\ (/\ conn[k].pc = "idle" /\ out'.who = k /\ out'.handler = "ATTENDANCE_MARKED"
            /\ out'.classId \in DOMAIN store /\ store[out'.classId] = None
            /\ ConnRole[k] = "TEACHER"
            /\ out'.studentId # Missing /\ out'.status # Missing)
           => (/\ out'.sent = Error("No active attendance session for this class")
               /\ out'.published = NoFrame
               /\ store' = store /\ conn'[k] = conn[k])
       /\ (conn[k].pc = "idle" /\ conn'[k].pc = "update_get")
           => store[conn'[k].classId] # None
       /\ (Uninterfered(k) /\ conn'[k].pc = "idle")
           => (/\ store'[c] # None
               /\ store'[c].sessionId = store[c].sessionId
               /\ store'[c].startedAt = store[c].startedAt
               /\ store'[c].classId = store[c].classId
               /\ Entries(store'[c].attendance)
                    = Others(store[c].attendance, s) \cup {<<s, v>>}
               /\ Cardinality(Keys(store'[c].attendance)) = Len(store'[c].attendance)
               /\ out'.who = k
               /\ out'.published = MarkedEvent(c, s, v)
               /\ out'.sent = NoFrame)]_vars

\* a mark has put a student's status into a session that holds another
\* student's entry, and was broadcast
C13_Witness ==
  /\ out.published = MarkedEvent("1", "2", "absent")
  /\ store["1"] # None
  /\ store["1"].attendance = <<<<"4", "present">>, <<"2", "absent">>>>

\* the role of the user a connection authenticated as
RoleOf(k) == IF sock[k].user_id = NoUser THEN "" ELSE UserRole[sock[k].user_id]
TeacherEvents == {"ATTENDANCE_MARKED", "TODAY_SUMMARY", "DONE"}
\* the step is connection k's answer, sent at once, to an event of handler e
Answers(k, e) ==
  sock[k].state = "open" /\ conn[k].pc = "idle" /\ out'.who = k /\ out'.handler = e

\* C14: a connection that is not a teacher's never gets into the handler of a
\* teacher's event, and an ATTENDANCE_MARKED, TODAY_SUMMARY or DONE it sends,
\* like a MY_ATTENDANCE sent by a connection that is not a student's, is
\* answered with an ERROR frame to the sender, publishes nothing and leaves the
\* session store and the records as they are.
C14_RoleGates ==
  [][\A k \in DOMAIN conn :
       /\ RoleOf(k) # "TEACHER" => conn'[k] = IdleConn
       /\ (\/ \E e \in TeacherEvents : Answers(k, e) /\ RoleOf(k) # "TEACHER"
           \/ Answers(k, "MY_ATTENDANCE") /\ RoleOf(k) # "STUDENT")
          => (/\ out'.sent.event = "ERROR"
              /\ out'.published = NoFrame
              /\ store' = store /\ records' = records)]_vars

\* a student has sent ATTENDANCE_MARKED for a class with a session stored
C14_Witness ==
  /\ out.who = "k3" /\ out.handler = "ATTENDANCE_MARKED"
  /\ out.classId = "1" /\ out.studentId = "2" /\ out.status = "present"
  /\ out.sent.event = "ERROR"
  /\ sock["k3"].user_id = 2
  /\ store["1"] # None

\* the credentials that authenticate nobody: none, no JWT, an expired token,
\* the token of a user that does not exist
NoCredential == {"", "garbage", "expired", "jwt8"}

\* C15: a connection that presents a credential that is missing, invalid,
\* expired or of no user is sent one ERROR frame and closed in its connect;
\* it is not put into the group, and from then on it is in no step: it is sent
\* nothing, gets no broadcast, and nothing of it reaches the store.
C15_AnonymousRejected ==
  [][\A k \in DOMAIN conn :
       /\ (sock[k].state = "new" /\ sock'[k].state # "new" /\ sock'[k].token \in NoCredential)
          => (/\ sock'[k].state = "closed"
              /\ out'.who = k /\ out'.sent.event = "ERROR" /\ out'.published = NoFrame
              /\ k \notin group'
              /\ store' = store /\ records' = records /\ conn' = conn)
       /\ (sock[k].state # "new" /\ sock[k].token \in NoCredential)
          => (/\ sock'[k] = sock[k] /\ sock[k].state = "closed"
              /\ out'.who # k
              /\ Broadcast(out', group', k) = NoFrame
              /\ conn'[k] = IdleConn)]_vars

\* a connection with an expired token was rejected, and an event has been
\* broadcast to the group since
C15_Witness ==
  /\ sock["k0"].state = "closed" /\ sock["k0"].token = "expired"
  /\ out.published.event = "ATTENDANCE_MARKED"
  /\ group = {"k1", "k3"}

\* C16: a frame that reaches no handler (no JSON, no object, an unknown event)
\* is answered with one ERROR frame and changes nothing; a handler that raises
\* ends with one ERROR frame to the sender; and whatever step sends an open
\* connection an ERROR frame leaves the socket open and in the group, with no
\* handler in flight, so that its next frame is received.
C16_ErrorsKeepOpen ==
  [][\A k \in DOMAIN conn :
       /\ (out'.who = k /\ out'.handler = "")
          => (/\ out'.sent.event = "ERROR" /\ out'.published = NoFrame
              /\ store' = store /\ records' = records)
       /\ (conn[k].pc = "create" /\ conn'[k].pc = "idle")
          => (out'.who = k /\ out'.sent.event = "ERROR" /\ out'.published = NoFrame)
       /\ (sock[k].state = "open" /\ out'.who = k /\ out'.sent.event = "ERROR")
          => (/\ sock'[k].state = "open"
              /\ k \in group /\ k \in group'
              /\ conn'[k] = IdleConn)]_vars

\* a DONE's handler has raised, after an unknown event was answered on the
\* other connection; both connections are open and in the group
C16_Witness ==
  \E k \in DOMAIN conn :
    /\ out.who = k /\ out.handler = "DONE"
    /\ out.sent = Error("IntegrityError")
    /\ \A j \in DOMAIN conn : sock[j].state = "open" /\ j \in group

\* C17: an event of a correctly-roled sender that lacks a required field is
\* answered with the ERROR of its handler that names the field(s) and does
\* nothing else: no handler is ever in flight with a field missing, nothing is
\* published, and the store and the records are as they were.
C17_MissingFields ==
  [][\A k \in DOMAIN conn :
       /\ conn'[k].pc # "idle" => conn'[k].classId # Missing
       /\ conn'[k].pc \in {"update_get", "update_set"}
            => (conn'[k].studentId # Missing /\ conn'[k].status # Missing)
       /\ (/\ Answers(k, "ATTENDANCE_MARKED") /\ RoleOf(k) = "TEACHER"
           /\ (out'.classId = Missing \/ out'.studentId = Missing \/ out'.status = Missing))
          => (/\ out'.sent = Error("Missing classId, studentId or status")
              /\ out'.published = NoFrame
              /\ store' = store /\ records' = records /\ conn' = conn)
       /\ (/\ \/ Answers(k, "TODAY_SUMMARY") /\ RoleOf(k) = "TEACHER"
              \/ Answers(k, "DONE") /\ RoleOf(k) = "TEACHER"
              \/ Answers(k, "MY_ATTENDANCE") /\ RoleOf(k) = "STUDENT"
           /\ out'.classId = Missing)
          => (/\ out'.sent = Error("Class ID required")
              /\ out'.published = NoFrame
              /\ store' = store /\ records' = records /\ conn' = conn)]_vars

\* a teacher's ATTENDANCE_MARKED without studentId was answered while a
\* session is stored for its class
C17_Witness ==
  /\ out.who = "k1" /\ out.handler = "ATTENDANCE_MARKED"
  /\ out.classId = "1" /\ out.studentId = Missing /\ out.status = "present"
  /\ out.sent.event = "ERROR"
  /\ store["1"] # None

\* C18: a student's MY_ATTENDANCE with a classId is answered, to the student
\* alone, with a MY_ATTENDANCE frame whose status is the one stored under the
\* student's own id in the class's session, and "not yet updated" both when
\* the class has no session and when its session has no entry for the student.
C18_MyAttendance ==
  [][\A k \in DOMAIN conn :
       (Answers(k, "MY_ATTENDANCE") /\ RoleOf(k) = "STUDENT" /\ out'.classId # Missing)
       => LET c == out'.classId
              me == str(sock[k].user_id)
              mine == IF store[c] = None THEN {}
                      ELSE {e \in Entries(store[c].attendance) : e[1] = me} IN
          /\ out'.sent.event = "MY_ATTENDANCE"
          /\ out'.published = NoFrame
          /\ IF mine = {} THEN out'.sent.status = "not yet updated"
             ELSE <<me, out'.sent.status>> \in mine]_vars

\* student 2 was answered "present" from a session whose first entry is
\* student 3's "absent"
C18_Witness ==
  /\ out.who = "k3" /\ out.handler = "MY_ATTENDANCE"
  /\ out.sent.status = "present"
  /\ store["1"] # None
  /\ store["1"].attendance = <<<<"3", "absent">>, <<"2", "present">>>>

\* the records of the end-to-end scenario for the session with the id given
ScenarioRows(session_id) ==
  {[session_id |-> session_id, classId |-> "1", student |-> 2, status |-> "present"],
   [session_id |-> session_id, classId |-> "1", student |-> 3, status |-> "absent"],
   [session_id |-> session_id, classId |-> "1", student |-> 4, status |-> "absent"]}
ScenarioAttendance == <<<<"2", "present">>, <<"3", "absent">>>>

\* C19: with students 2, 3 and 4 enrolled: a TODAY_SUMMARY of a session in
\* which 2 was marked present and then 3 absent publishes present 1, absent 1,
\* total 2; the DONE of that session does not fail and deletes it with exactly
\* the records 2 present, 3 absent, 4 absent committed for it; and no start is
\* refused for an active session once no session is stored.
C19_EndToEnd ==
  [][/\ \A k \in DOMAIN conn :
          /\ (/\ Answers(k, "TODAY_SUMMARY") /\ RoleOf(k) = "TEACHER"
               /\ out'.classId = "1" /\ store["1"] # None
               /\ store["1"].attendance = ScenarioAttendance)
              => (/\ out'.published.event = "TODAY_SUMMARY"
                  /\ out'.published.present = 1
                  /\ out'.published.absent = 1
                  /\ out'.published.total = 2)
          /\ (/\ conn[k].pc = "clear" /\ conn'[k].pc = "done_send"
               /\ conn[k].session.attendance = ScenarioAttendance)
              => (/\ store'["1"] = None
                  /\ RowsOf(conn[k].session.sessionId)
                       = ScenarioRows(conn[k].session.sessionId)
                  /\ \A r \in RowsOf(conn[k].session.sessionId) : CopiesIn(r, records') = 1)
          /\ ~(/\ conn[k].pc \in {"persist", "create"} /\ conn'[k].pc = "idle"
                /\ conn[k].session.attendance = ScenarioAttendance)
     /\ \A h \in DOMAIN http :
          (out'.who = h /\ out'.classId = "1" /\ store["1"] = None)
          => out'.resp.error # "Active session already exists for this class"]_vars

\* the DONE of the scenario's session has committed its records and deleted
\* it, and a start has since stored a second session of the class
C19_Witness ==
  /\ conn["k1"].pc = "done_send"
  /\ conn["k1"].session.attendance = ScenarioAttendance
  /\ RowsOf(1) = ScenarioRows(1)
  /\ store["1"] # None
  /\ store["1"].sessionId = 2
  /\ out.resp.status = HTTP_200_OK

\* C20: a start refused for an active session is answered with status 409,
\* and a start that stores a session is answered with that session's
\* sessionId, classId and startedAt.
C20_StartConflict409 ==
  [][\A h \in DOMAIN http :
       /\ (out'.who = h /\ out'.resp.error = "Active session already exists for this class")
          => out'.resp.status = 409
       /\ (http[h].pc = "set" /\ http'[h].pc = "idle")
          => LET c == http[h].classId IN
             /\ out'.who = h
             /\ store'[c] # None
             /\ out'.resp.sessionId = store'[c].sessionId
             /\ out'.resp.classId = c
             /\ out'.resp.startedAt = store'[c].startedAt]_vars

\* C21: of the start requests in flight at once for a class, at most one
\* succeeds (a start is answered 200 only if it stores its session where none
\* was stored), and the sessionId of the stored session does not change while
\* a session stays stored
C21_ConcurrentStarts ==
  [][/\ (out'.handler = "start_attendance" /\ out'.resp.status = HTTP_200_OK)
          => store[out'.classId] = None
     /\ \A c \in ClassIdInputs :
          (store[c] # None /\ store'[c] # None) => store'[c].sessionId = store[c].sessionId]_vars

\* C22: only the teacher who owns a class starts a session for it: a start
\* goes on to store a session, and is answered 200, only for the owning
\* teacher, and a start for a class by anyone else (another teacher, a
\* student, an admin) is answered 403 and leaves the store and the records as
\* they were
C22_OnlyOwnerStarts ==
  [][/\ \A h \in DOMAIN http :
          (http[h].pc = "idle" /\ http'[h].pc = "set")
          => /\ UserRole[http'[h].user] = "TEACHER"
             /\ ClassTeacher[http'[h].classId] = http'[h].user
     /\ (out'.handler = "start_attendance" /\ out'.resp.status = HTTP_200_OK)
          => /\ UserRole[out'.user] = "TEACHER"
             /\ ClassTeacher[out'.classId] = out'.user
     /\ (/\ out'.handler = "start_attendance"
         /\ out'.classId \in DOMAIN ClassTeacher
         /\ ClassTeacher[out'.classId] # out'.user)
          => /\ out'.resp.status = HTTP_403_FORBIDDEN
             /\ store' = store
             /\ records' = records
             /\ http' = http]_vars
\* an admin has been refused a start for class "1", with no session stored
C22_Witness ==
  /\ out.handler = "start_attendance"
  /\ out.user = 6
  /\ out.classId = "1"
  /\ out.resp.status = HTTP_403_FORBIDDEN
  /\ store["1"] = None

\* C23: while a session is active (the same sessionId is stored before and
\* after a step) its attendance only grows: every student id that had an
\* entry before the step has one after it
C23_KeysOnlyGrow ==
  [][\A c \in ClassIdInputs :
       (store[c] # None /\ store'[c] # None /\ store'[c].sessionId = store[c].sessionId)
       => Keys(store[c].attendance) \subseteq Keys(store'[c].attendance)]_vars

\* the classes a step is addressed to: the classId of the request or of the
\* event whose handler takes the step
StepClasses ==
  ({conn[k].classId : k \in {x \in DOMAIN conn : conn'[x] # conn[x]}} \cup
   {conn'[k].classId : k \in {x \in DOMAIN conn : conn'[x] # conn[x]}} \cup
   {http[h].classId : h \in {x \in DOMAIN http : http'[x] # http[x]}} \cup
   {http'[h].classId : h \in {x \in DOMAIN http : http'[x] # http[x]}} \cup
   {out'.classId}) \ {""}
\* the rows of the Attendance table of class c are the same after the step
SameRows(c) ==
  \A r \in BagToSet(records) \cup BagToSet(records') :
    r.classId = c => CopiesIn(r, records') = CopiesIn(r, records)

\* C24: the sessions of different classes are independent: every step of a
\* start, a mark, a summary, a status query or a finalize addressed to one
\* class leaves the stored session and the records of every other class as
\* they were
C24_ClassesIndependent ==
  [][/\ Cardinality(StepClasses) <= 1
     /\ \A b \in ClassIdInputs :
          b \notin StepClasses => (store'[b] = store[b] /\ SameRows(b))]_vars
\* class "1" has been finalized (its session deleted, its rows committed) while
\* the session of class "2" stays stored with its mark
C24_Witness ==
  /\ store["1"] = None
  /\ \E r \in BagToSet(records) : r.classId = "1"
  /\ store["2"] # None
  /\ Keys(store["2"].attendance) = {"3"}
  /\ out.published.event = "DONE"
  /\ out.published.classId = "1"

\* a connection that authenticated and has not disconnected
Member(k) == sock[k].state = "open" /\ sock[k].user_id # NoUser

\* C25: an event published to the group (ATTENDANCE_MARKED, TODAY_SUMMARY,
\* DONE) reaches a connection at most once, as the one frame of the step that
\* publishes it, and only a connection that is in the one group "attendance"
\* at that step, which the authenticated connections that have not
\* disconnected are, whatever class the event is about; a step that
\* publishes nothing delivers nothing, so nothing published earlier reaches a
\* connection that joins later
C25_DeliveryToMembers ==
  [][\A k \in DOMAIN sock :
       LET frame == Broadcast(out', group, k) IN
       /\ (k \in group) = Member(k)
       /\ frame # NoFrame
            => /\ Member(k)
               /\ frame = out'.published
               /\ frame.event \in {"ATTENDANCE_MARKED", "TODAY_SUMMARY", "DONE"}
       /\ (Member(k) /\ out'.published # NoFrame) => frame = out'.published
       /\ out'.published = NoFrame => frame = NoFrame]_vars
\* the teacher's mark is published while the student's connection has joined
\* and left and the anonymous one was turned away: only k1 is in the group
C25_Witness ==
  /\ out.published.event = "ATTENDANCE_MARKED"
  /\ group = {"k1"}
  /\ sock["k3"].state = "closed"
  /\ sock["k3"].user_id = 2
  /\ sock["k0"].state = "closed"

\* C26: a disconnect takes the connection out of the group and changes
\* nothing else: the stored sessions, the records, the enrolments, the other
\* connections' membership and every handler and request in flight are as
\* they were, so what the connection did before it closed (a session it
\* marked, a DONE it committed) stays done
C26_DisconnectFrame ==
  [][\A k \in DOMAIN sock :
       (sock[k].state = "open" /\ sock'[k].state = "closed")
       => /\ group' = group \ {k}
          /\ k \in group
          /\ store' = store
          /\ records' = records
          /\ students' = students
          /\ conn' = conn
          /\ http' = http
          /\ out'.sent = NoFrame /\ out'.published = NoFrame
          /\ \A j \in DOMAIN sock \ {k} : sock'[j] = sock[j]]_vars
\* the teacher's connection has closed after it marked student 2 in the
\* session stored: the session and the mark are still there
C26_Witness ==
  /\ sock["k1"].state = "closed"
  /\ "k1" \notin group
  /\ store["1"] # None
  /\ store["1"].attendance = <<<<"2", "present">>>>
  /\ out = Quiet

\* C27: a handshake with a credential that resolves to a user joins the
\* connection to the group, accepts it and sends it one CONNECTED frame with
\* the id and the role of the user of the credential, and nothing to the
\* group; CONNECTED is sent at no other step, and the connection stays in the
\* group for as long as it is open
C27_Handshake ==
  [][\A k \in DOMAIN sock :
       /\ (sock[k].state = "new" /\ sock'[k].state = "open")
            => /\ sock'[k].token \in DOMAIN AccessToken
               /\ AccessToken[sock'[k].token] \in DOMAIN UserRole
               /\ k \in group'
               /\ out' = Sent(k, "connect",
                    [NoFrame EXCEPT !.event = "CONNECTED",
                                    !.userId = AccessToken[sock'[k].token],
                                    !.role = UserRole[AccessToken[sock'[k].token]]])
       /\ (out'.who = k /\ out'.sent.event = "CONNECTED") => sock[k].state = "new"
       /\ (k \in group /\ sock'[k].state = "open") => k \in group'
       /\ (k \in group /\ k \notin group') => sock'[k].state = "closed"]_vars
\* the student's connection has just been accepted: it is in the group and
\* its CONNECTED frame names user 2, a STUDENT
C27_Witness ==
  /\ sock["k3"].state = "open"
  /\ "k3" \in group
  /\ out.who = "k3"
  /\ out.sent.event = "CONNECTED"
  /\ out.sent.userId = 2
  /\ out.sent.role = "STUDENT"

\* C28: TODAY_SUMMARY and MY_ATTENDANCE read and never write, answered or
\* refused: the store, the records, the enrolments and every handler and
\* request in flight are the same after them; the counts of a summary
\* published are those of the attendance stored for the class at that step;
\* and MY_ATTENDANCE answers its sender and publishes nothing to the group
C28_QueriesReadOnly ==
  [][\A k \in DOMAIN conn :
       /\ (Answers(k, "TODAY_SUMMARY") \/ Answers(k, "MY_ATTENDANCE"))
            => /\ store' = store
               /\ records' = records
               /\ students' = students
               /\ conn' = conn
               /\ http' = http
               /\ sock' = sock /\ group' = group
       /\ (Answers(k, "TODAY_SUMMARY") /\ out'.published # NoFrame)
            => /\ store[out'.classId] # None
               /\ LET att == store[out'.classId].attendance IN
                  out'.published =
                    [NoFrame EXCEPT
                       !.event = "TODAY_SUMMARY", !.classId = out'.classId,
                       !.present = Cardinality({i \in 1..Len(att) : att[i][2] = "present"}),
                       !.absent = Cardinality({i \in 1..Len(att) : att[i][2] = "absent"}),
                       !.total = Len(att)]
       /\ Answers(k, "MY_ATTENDANCE")
            => /\ out'.published = NoFrame
               /\ out'.sent # NoFrame
               /\ \A j \in DOMAIN sock : Broadcast(out', group, j) = NoFrame]_vars
\* the teacher's summary of a session with one present and one absent entry
\* has been published, and the session is stored as it was
C28_Witness ==
  /\ out.who = "k1"
  /\ out.published.event = "TODAY_SUMMARY"
  /\ out.published.present = 1
  /\ out.published.absent = 1
  /\ out.published.total = 2
  /\ store["1"] # None
  /\ Len(store["1"].attendance) = 2

\* C29: every status in the attendance of a stored session, and the status
\* of every row of the Attendance table, is "present" or "absent"
C29_StatusDomain ==
  /\ \A c \in ClassIdInputs :
       \A i \in 1..Len(store[c].attendance) :
         store[c].attendance[i][2] \in {"present", "absent"}
  /\ \A r \in BagToSet(records) : r.status \in {"present", "absent"}

\* C30: ATTENDANCE_MARKED is published only for a mark that was written: at
\* the step that publishes it the session of the class is stored and holds
\* the status of the event under the student's id
C30_BroadcastOnlyWritten ==
  [][out'.published.event = "ATTENDANCE_MARKED"
     => /\ store'[out'.published.classId] # None
        /\ <<out'.published.studentId, out'.published.status>>
             \in Entries(store'[out'.published.classId].attendance)]_vars

\* C31: the present, absent and total of a DONE published are the numbers of
\* rows committed for the session finalized with status present, with status
\* absent, and in all
C31_DoneCounts ==
  [][\A k \in DOMAIN conn :
       (conn[k].pc = "done_send" /\ out'.who = k /\ out'.published.event = "DONE")
       => LET rows == RowsOf(conn[k].session.sessionId) IN
          /\ out'.published.present = Cardinality({r \in rows : r.status = "present"})
          /\ out'.published.absent = Cardinality({r \in rows : r.status = "absent"})
          /\ out'.published.total = Cardinality(rows)]_vars

\* C32: a session is finalized at most once: of the DONE handlers that read
\* the same stored session, no two get through persist_attendance and on to
\* the group_send of their DONE
C32_FinalizedOnce ==
  \A j, k \in DOMAIN conn :
    (/\ j # k
     /\ conn[j].pc = "done_send"
     /\ conn[k].pc = "done_send")
    => conn[j].session.sessionId # conn[k].session.sessionId

\* C33: a start that succeeds stores a session with an empty attendance and
\* a sessionId that no session had before it: none stored, none in the hands
\* of a handler or of another request, and none that a row of the Attendance
\* table carries, so that the rows of the new session cannot collide with
\* those of an earlier one
C33_FreshSession ==
  [][\A h \in DOMAIN http :
       (out'.who = h /\ out'.handler = "start_attendance" /\ out'.resp.status = HTTP_200_OK)
       => LET c == out'.classId
              session_id == store'[c].sessionId IN
          /\ store'[c] # None
          /\ store'[c].attendance = << >>
          /\ store'[c].classId = c
          /\ out'.resp.sessionId = session_id
          /\ RowsOf(session_id) = {}
          /\ \A b \in ClassIdInputs : store[b].sessionId # session_id
          /\ \A k \in DOMAIN conn : conn[k].session.sessionId # session_id
          /\ \A g \in DOMAIN http \ {h} : http[g].session.sessionId # session_id]_vars
\* the class's second session has just been started, empty and with
\* sessionId 2, while the rows of its first session, sessionId 1, are in the
\* table
C33_Witness ==
  /\ out.handler = "start_attendance"
  /\ out.resp.status = HTTP_200_OK
  /\ out.resp.sessionId = 2
  /\ store["1"].sessionId = 2
  /\ store["1"].attendance = << >>
  /\ RowsOf(1) # {}
  /\ RowsOf(2) = {}

====
